---- MODULE Spec2Model ----
(***************************************************************************)
(* Model of sync.py: replication of Azure resource-provider registrations  *)
(* from a source subscription to a destination subscription.               *)
(*                                                                         *)
(* A Python dict (Registrations) is a sequence of <<key, value>> pairs     *)
(* with unique keys, in insertion order, which is the order .items()       *)
(* iterates in.  A str read from the operator is a sequence of one-        *)
(* character strings.                                                      *)
(***************************************************************************)
EXTENDS Integers, Sequences, FiniteSets, TLC

\* ------------------------------------------------------------------------
\* Bounds and value universes
\* ------------------------------------------------------------------------

\* number of provider namespaces the Azure API may list
MaxNamespaces == 2

NamespaceNames ==
    <<"Microsoft.Compute", "Microsoft.Cdn", "Microsoft.Storage",
      "Microsoft.Web", "Microsoft.Sql">>

Namespaces == {NamespaceNames[i] : i \in 1..MaxNamespaces}

\* values of Provider.registration_state returned by providers.list()
RegistrationStates == {"Registered", "NotRegistered", "Registering", "Unregistering"}

\* what providers.list() may return: providers with pairwise distinct namespaces
Listings ==
    UNION {{l \in [1..n -> Namespaces \X RegistrationStates] :
                \A i, j \in 1..n : l[i][1] = l[j][1] => i = j}
           : n \in 0..MaxNamespaces}

\* A subscription id as given on the command line, abstracted to what
\* uuid.UUID(hex=...) looks at: the number of characters left once "urn:",
\* "uuid:", braces and hyphens are removed, and whether they are hex digits.
SubscriptionIds ==
    {[text |-> "11111111-aaaa", hexlen |-> 32, hexdigits |-> TRUE],
     [text |-> "22222222-bbbb", hexlen |-> 32, hexdigits |-> TRUE],
     [text |-> "not-a-guid",    hexlen |-> 8,  hexdigits |-> FALSE],
     [text |-> "gggggggg-gggg", hexlen |-> 32, hexdigits |-> FALSE]}

\* strategy_name: None when argv has three entries, else argv[3]
None == "None"
StrategyNames == {None, "echo", "sync", "bogus", "ECHO"}

\* lines the operator may type at the prompt
Whitespace == {" ", "\t"}
Pads == {<<>>, <<"\t", " ">>}
\* the token yes in every letter case
Cores == {<<a, b, c>> : a \in {"y", "Y"}, b \in {"e", "E"}, c \in {"s", "S"}}
\* one mixed-case yes and lines that are not yes, each with and without
\* whitespace around it
Padded ==
    {<<"Y", "e", "S">>, <<>>, <<"y">>, <<"n", "o">>, <<"y", "e", " ", "s">>,
     <<"y", "e", "s", "s">>}
Inputs == Cores \cup {l \o c \o r : l \in Pads, c \in Padded, r \in Pads}

\* ------------------------------------------------------------------------
\* dict helpers
\* ------------------------------------------------------------------------

Keys(d) == {d[i][1] : i \in DOMAIN d}

Has(d, k) == k \in Keys(d)

Get(d, k) == d[CHOOSE i \in DOMAIN d : d[i][1] = k][2]

\* d[k] = v: an existing key keeps its position, a new key goes last
Put(d, k, v) ==
    IF Has(d, k)
    THEN [i \in DOMAIN d |-> IF d[i][1] = k THEN <<k, v>> ELSE d[i]]
    ELSE Append(d, <<k, v>>)

\* ------------------------------------------------------------------------
\* ReplicationStrategy
\* ------------------------------------------------------------------------

ECHO == "echo"
SYNC == "sync"
ReplicationStrategy == {ECHO, SYNC}
DEFAULT_REPLICATION_STRATEGY == ECHO

\* ------------------------------------------------------------------------
\* Exceptions
\* ------------------------------------------------------------------------

NoError == [type |-> "none", msg |-> ""]

RuntimeError(m) == [type |-> "RuntimeError", msg |-> m]
ValueError(m) == [type |-> "ValueError", msg |-> m]
NotImplementedError(m) == [type |-> "NotImplementedError", msg |-> m]
\* any exception of the Azure SDK raised by a client call
HttpResponseError == [type |-> "HttpResponseError", msg |-> "request failed"]

\* ------------------------------------------------------------------------
\* Pure functions
\* ------------------------------------------------------------------------

\* UUID(hex=subscription_id, version=4) raises ValueError unless 32 hex digits
\* remain; version=4 only overwrites the version bits and rejects nothing.
subscription_id_valid(subscription_id) ==
    subscription_id.hexlen = 32 /\ subscription_id.hexdigits

\* {p.namespace: True if p.registration_state == "Registered" else False ...}
RECURSIVE registrations_of(_, _, _)
registrations_of(all_providers_, i, acc) ==
    IF i > Len(all_providers_) THEN acc
    ELSE registrations_of(all_providers_, i + 1,
            Put(acc, all_providers_[i][1], all_providers_[i][2] = "Registered"))

get_subscription_registrations(all_providers_) ==
    registrations_of(all_providers_, 1, <<>>)

EchoCondition_NoDestinationCheck(provider, enabled, destination_registrations_) ==
    enabled /\ Has(destination_registrations_, provider)

\* the if of the ECHO case
EchoCondition(provider, enabled, destination_registrations_) ==
    /\ enabled
    /\ Has(destination_registrations_, provider)
    /\ ~Get(destination_registrations_, provider)

SyncCondition_NoComparison(provider, source_registrations_, destination_registrations_) ==
    Has(destination_registrations_, provider)

\* the if of the SYNC case
SyncCondition(provider, source_registrations_, destination_registrations_) ==
    /\ Has(destination_registrations_, provider)
    /\ ~(Get(source_registrations_, provider) = Get(destination_registrations_, provider))

\* for provider, enabled in source_registrations.items(): (ECHO)
RECURSIVE echo_loop(_, _, _, _)
echo_loop(source_registrations_, destination_registrations_, i, registration_delta) ==
    IF i > Len(source_registrations_) THEN registration_delta
    ELSE LET provider == source_registrations_[i][1]
             enabled == source_registrations_[i][2]
         IN echo_loop(source_registrations_, destination_registrations_, i + 1,
                IF EchoCondition(provider, enabled, destination_registrations_)
                THEN Put(registration_delta, provider, TRUE)
                ELSE registration_delta)

\* for provider, enabled in source_registrations.items(): (SYNC)
RECURSIVE sync_loop(_, _, _, _)
sync_loop(source_registrations_, destination_registrations_, i, registration_delta) ==
    IF i > Len(source_registrations_) THEN registration_delta
    ELSE LET provider == source_registrations_[i][1]
             enabled == source_registrations_[i][2]
         IN sync_loop(source_registrations_, destination_registrations_, i + 1,
                IF SyncCondition(provider, source_registrations_, destination_registrations_)
                THEN Put(registration_delta, provider, enabled)
                ELSE registration_delta)

sync_delta_FromDestination(source_registrations_, destination_registrations_) ==
    sync_loop(destination_registrations_, source_registrations_, 1, <<>>)

sync_delta(source_registrations_, destination_registrations_) ==
    sync_loop(source_registrations_, destination_registrations_, 1, <<>>)

\* The result of a call: the exception it raised (NoError if none) and the
\* value it returned.
generate_registration_delta(source_registrations_, destination_registrations_, strategy_) ==
    CASE strategy_ = ECHO ->
            [raised |-> NoError,
             value |-> echo_loop(source_registrations_, destination_registrations_, 1, <<>>)]
      [] strategy_ = SYNC ->
            [raised |-> NoError,
             value |-> sync_delta(source_registrations_, destination_registrations_)]
      [] OTHER ->
            [raised |-> NotImplementedError("Unrecognized replication strategy"),
             value |-> <<>>]

\* ------------------------------------------------------------------------
\* Console
\* ------------------------------------------------------------------------

Line(kind, namespace, width, text) ==
    [kind |-> kind, namespace |-> namespace, width |-> width, text |-> text]

ReportMargin == 5

Max(S) == CHOOSE m \in S : \A n \in S : n <= m

\* one line per entry, padded to the longest namespace plus the margin;
\* called with a non-empty delta only (the [0] raises IndexError otherwise)
delta_report(registration_delta) ==
    LET namespace_width == Max({Len(k) : k \in Keys(registration_delta)}) + ReportMargin
    IN [i \in DOMAIN registration_delta |->
            Line("report", registration_delta[i][1], namespace_width,
                 IF registration_delta[i][2] THEN "Register" ELSE "Unregister")]

\* str.lower() on the characters an operator line is made of
LowerChar(c) ==
    CASE c = "Y" -> "y"
      [] c = "E" -> "e"
      [] c = "S" -> "s"
      [] OTHER -> c

lower(s) == [i \in DOMAIN s |-> LowerChar(s[i])]

\* str.strip(): drop leading and trailing whitespace
RECURSIVE lstrip(_)
lstrip(s) == IF s # <<>> /\ Head(s) \in Whitespace THEN lstrip(Tail(s)) ELSE s

RECURSIVE rstrip(_)
rstrip(s) ==
    IF s # <<>> /\ s[Len(s)] \in Whitespace THEN rstrip(SubSeq(s, 1, Len(s) - 1)) ELSE s

strip(s) == rstrip(lstrip(s))

Declined_NoStrip(confirm_) == lower(confirm_) # <<"y", "e", "s">>

\* confirm.lower().strip() != "yes"
Declined(confirm_) == strip(lower(confirm_)) # <<"y", "e", "s">>

\* ------------------------------------------------------------------------
\* Entry validation
\* ------------------------------------------------------------------------

IDENTICAL == RuntimeError("Subscription ID for source and destination must not match!")
INVALID_SOURCE == RuntimeError("Source subscription ID doesn't appear to be a valid UUID.")
INVALID_DESTINATION ==
    RuntimeError("Destination subscription ID doesn't appear to be a valid UUID.")

check_subscription_ids_FormatFirst(source_id, destination_id) ==
    IF ~subscription_id_valid(source_id) THEN INVALID_SOURCE
    ELSE IF ~subscription_id_valid(destination_id) THEN INVALID_DESTINATION
    ELSE IF source_id = destination_id THEN IDENTICAL
    ELSE NoError

\* the three checks at the head of main: the exception raised, or NoError
check_subscription_ids(source_id, destination_id) ==
    IF source_id = destination_id THEN IDENTICAL
    ELSE IF ~subscription_id_valid(source_id) THEN INVALID_SOURCE
    ELSE IF ~subscription_id_valid(destination_id) THEN INVALID_DESTINATION
    ELSE NoError

resolve_strategy_EvaluatorError(strategy_name_) ==
    IF strategy_name_ = None
    THEN [raised |-> NoError, value |-> DEFAULT_REPLICATION_STRATEGY]
    ELSE IF strategy_name_ \in ReplicationStrategy
    THEN [raised |-> NoError, value |-> strategy_name_]
    ELSE [raised |-> NotImplementedError("Unrecognized replication strategy"),
          value |-> ""]

\* strategy_name is None -> the default; else ReplicationStrategy(strategy_name),
\* the enum's lookup by value, which raises ValueError for a value of no member
resolve_strategy(strategy_name_) ==
    IF strategy_name_ = None
    THEN [raised |-> NoError, value |-> DEFAULT_REPLICATION_STRATEGY]
    ELSE IF strategy_name_ \in ReplicationStrategy
    THEN [raised |-> NoError, value |-> strategy_name_]
    ELSE [raised |-> ValueError("is not a valid ReplicationStrategy"), value |-> ""]

\* ------------------------------------------------------------------------
\* Calls to the Azure clients
\* ------------------------------------------------------------------------

Call(api, subscription_id, namespace, ok) ==
    [api |-> api, subscription_id |-> subscription_id, namespace |-> namespace, ok |-> ok]

NoSubscription == [subscription_id |-> ""]

Subscription(id) == [subscription_id |-> id.text]

set_subscription_registration_Swapped(subscription, namespace, value, ok) ==
    Call(IF value THEN "providers.unregister" ELSE "providers.register",
         subscription.subscription_id, namespace, ok)

\* the client call set_subscription_registration makes for (namespace, value)
set_subscription_registration(subscription, namespace, value, ok) ==
    Call(IF value THEN "providers.register" ELSE "providers.unregister",
         subscription.subscription_id, namespace, ok)

\* ------------------------------------------------------------------------
\* State
\* ------------------------------------------------------------------------

VARIABLES
    source_subscription_id,       \* sys.argv[1]
    destination_subscription_id,  \* sys.argv[2]
    strategy_name,                \* sys.argv[3] or None
    pc,                           \* where the run is
    strategy,                     \* main's resolved strategy
    source_subscription,          \* main's source_subscription
    destination_subscription,     \* main's destination_subscription
    all_providers,                \* what the latest providers.list() returned
    source_registrations,
    destination_registrations,
    delta,
    apply_index,                  \* position of apply_delta's loop in delta
    confirm,                      \* the line read by input()
    output,                       \* lines printed so far
    calls,                        \* client calls made so far
    error,                        \* the exception in flight or handled
    exit_code                     \* process status once pc = "exit"

vars ==
    <<source_subscription_id, destination_subscription_id, strategy_name, pc,
      strategy, source_subscription, destination_subscription, all_providers,
      source_registrations, destination_registrations, delta, apply_index,
      confirm, output, calls, error, exit_code>>

args == <<source_subscription_id, destination_subscription_id, strategy_name>>

NoInput == <<"<no input>">>
NoStatus == 0 - 1
EXIT_SUCCESS == 0
\* exit(-2) as the status the parent process sees
EXIT_FAILURE == (0 - 2) % 256

Init ==
    /\ source_subscription_id \in SubscriptionIds
    /\ destination_subscription_id \in SubscriptionIds
    /\ strategy_name \in StrategyNames
    /\ pc = "main"
    /\ strategy = ""
    /\ source_subscription = NoSubscription
    /\ destination_subscription = NoSubscription
    /\ all_providers = <<>>
    /\ source_registrations = <<>>
    /\ destination_registrations = <<>>
    /\ delta = <<>>
    /\ apply_index = 0
    /\ confirm = NoInput
    /\ output = <<>>
    /\ calls = <<>>
    /\ error = NoError
    /\ exit_code = NoStatus

Raise(e) ==
    /\ error' = e
    /\ pc' = "raised"

\* main up to its first client call: the checks and the strategy
Main ==
    /\ pc = "main"
    /\ LET e == check_subscription_ids(source_subscription_id, destination_subscription_id)
           r == resolve_strategy(strategy_name)
       IN IF e # NoError THEN Raise(e) /\ UNCHANGED strategy
          ELSE IF r.raised # NoError THEN Raise(r.raised) /\ UNCHANGED strategy
          ELSE /\ strategy' = r.value
               /\ pc' = "get_source"
               /\ UNCHANGED error
    /\ UNCHANGED <<args, source_subscription, destination_subscription, all_providers,
                   source_registrations, destination_registrations, delta, apply_index,
                   confirm, output, calls, exit_code>>

\* source_subscription = get_subscription(source_subscription_id)
GetSourceSubscription ==
    /\ pc = "get_source"
    /\ \E ok \in BOOLEAN :
        /\ calls' = Append(calls, Call("subscriptions.get", source_subscription_id.text, "", ok))
        /\ IF ok
           THEN /\ source_subscription' = Subscription(source_subscription_id)
                /\ pc' = "get_destination"
                /\ UNCHANGED error
           ELSE Raise(HttpResponseError) /\ UNCHANGED source_subscription
    /\ UNCHANGED <<args, strategy, destination_subscription, all_providers,
                   source_registrations, destination_registrations, delta, apply_index,
                   confirm, output, exit_code>>

\* destination_subscription = get_subscription(destination_subscription_id)
GetDestinationSubscription ==
    /\ pc = "get_destination"
    /\ \E ok \in BOOLEAN :
        /\ calls' = Append(calls,
                        Call("subscriptions.get", destination_subscription_id.text, "", ok))
        /\ IF ok
           THEN /\ destination_subscription' = Subscription(destination_subscription_id)
                /\ pc' = "fetch_source"
                /\ UNCHANGED error
           ELSE Raise(HttpResponseError) /\ UNCHANGED destination_subscription
    /\ UNCHANGED <<args, strategy, source_subscription, all_providers,
                   source_registrations, destination_registrations, delta, apply_index,
                   confirm, output, exit_code>>

\* source_registrations = get_subscription_registrations(subscription=source)
FetchSource ==
    /\ pc = "fetch_source"
    /\ \/ \E listing \in Listings :
            /\ calls' = Append(calls,
                            Call("providers.list", source_subscription.subscription_id, "", TRUE))
            /\ all_providers' = listing
            /\ source_registrations' = get_subscription_registrations(listing)
            /\ pc' = "fetch_destination"
            /\ UNCHANGED error
       \/ /\ calls' = Append(calls,
                            Call("providers.list", source_subscription.subscription_id, "", FALSE))
          /\ Raise(HttpResponseError)
          /\ UNCHANGED <<all_providers, source_registrations>>
    /\ UNCHANGED <<args, strategy, source_subscription, destination_subscription,
                   destination_registrations, delta, apply_index, confirm, output,
                   exit_code>>

\* destination_registrations = get_subscription_registrations(subscription=destination)
FetchDestination ==
    /\ pc = "fetch_destination"
    /\ \/ \E listing \in Listings :
            /\ calls' = Append(calls,
                            Call("providers.list", destination_subscription.subscription_id,
                                 "", TRUE))
            /\ all_providers' = listing
            /\ destination_registrations' = get_subscription_registrations(listing)
            /\ pc' = "evaluate"
            /\ UNCHANGED error
       \/ /\ calls' = Append(calls,
                            Call("providers.list", destination_subscription.subscription_id,
                                 "", FALSE))
          /\ Raise(HttpResponseError)
          /\ UNCHANGED <<all_providers, destination_registrations>>
    /\ UNCHANGED <<args, strategy, source_subscription, destination_subscription,
                   source_registrations, delta, apply_index, confirm, output, exit_code>>

\* the prints of replicate_registrations for a non-empty delta, up to the
\* prompt that input() writes before it blocks
Announce(registration_delta) ==
    <<Line("header", "", 0, destination_subscription.subscription_id)>>
    \o delta_report(registration_delta)
    \o <<Line("prompt", "", 0, "Enter 'yes' to proceed: ")>>

Evaluate_MissingReturn ==
    /\ pc = "evaluate"
    /\ LET r == generate_registration_delta(source_registrations,
                                            destination_registrations, strategy)
       IN /\ delta' = r.value
          /\ IF r.raised # NoError THEN Raise(r.raised) /\ UNCHANGED <<output, exit_code>>
             ELSE IF r.value = <<>>
             THEN /\ output' = output \o <<Line("no_delta", "", 0, ""),
                                          Line("header", "", 0,
                                               destination_subscription.subscription_id)>>
                  /\ Raise([type |-> "IndexError", msg |-> "list index out of range"])
                  /\ UNCHANGED exit_code
             ELSE /\ output' = output \o Announce(r.value)
                  /\ pc' = "confirm"
                  /\ UNCHANGED <<error, exit_code>>
    /\ all_providers' = <<>>
    /\ UNCHANGED <<args, strategy, source_subscription, destination_subscription,
                   source_registrations, destination_registrations, apply_index,
                   confirm, calls>>

\* delta = generate_registration_delta(...); the return on an empty delta;
\* the report and the prompt otherwise
Evaluate ==
    /\ pc = "evaluate"
    /\ LET r == generate_registration_delta(source_registrations,
                                            destination_registrations, strategy)
       IN /\ delta' = r.value
          /\ IF r.raised # NoError THEN Raise(r.raised) /\ UNCHANGED <<output, exit_code>>
             ELSE IF r.value = <<>>
             THEN /\ output' = Append(output, Line("no_delta", "", 0, ""))
                  /\ pc' = "exit"
                  /\ exit_code' = EXIT_SUCCESS
                  /\ UNCHANGED error
             ELSE /\ output' = output \o Announce(r.value)
                  /\ pc' = "confirm"
                  /\ UNCHANGED <<error, exit_code>>
    /\ all_providers' = <<>>
    /\ UNCHANGED <<args, strategy, source_subscription, destination_subscription,
                   source_registrations, destination_registrations, apply_index,
                   confirm, calls>>

\* confirm = input(...); the return on anything but yes
Confirm ==
    /\ pc = "confirm"
    /\ \E line \in Inputs :
        /\ confirm' = line
        /\ IF Declined(line)
           THEN /\ output' = Append(output, Line("aborting", "", 0, ""))
                /\ pc' = "exit"
                /\ exit_code' = EXIT_SUCCESS
                /\ UNCHANGED apply_index
           ELSE /\ pc' = "apply"
                /\ apply_index' = 1
                /\ UNCHANGED <<output, exit_code>>
    /\ UNCHANGED <<args, strategy, source_subscription, destination_subscription,
                   all_providers, source_registrations, destination_registrations,
                   delta, calls, error>>

Registered(namespace, value) ==
    Line(IF value THEN "registering" ELSE "unregistering", namespace, 0,
         destination_subscription.subscription_id)

ApplyNext_ContinueOnFailure ==
    /\ pc = "apply"
    /\ LET namespace == delta[apply_index][1]
           value == delta[apply_index][2]
           last == apply_index = Len(delta)
       IN \E ok \in BOOLEAN :
            /\ calls' = Append(calls,
                            set_subscription_registration(destination_subscription,
                                                          namespace, value, ok))
            /\ output' = (IF ok THEN Append(output, Registered(namespace, value))
                                ELSE Append(output, Line("failure", namespace, 0, "")))
                         \o (IF last THEN <<Line("complete", "", 0, "")>> ELSE <<>>)
            /\ IF last
               THEN pc' = "exit" /\ exit_code' = EXIT_SUCCESS /\ UNCHANGED apply_index
               ELSE apply_index' = apply_index + 1 /\ UNCHANGED <<pc, exit_code>>
            /\ UNCHANGED error
    /\ UNCHANGED <<args, strategy, source_subscription, destination_subscription,
                   all_providers, source_registrations, destination_registrations,
                   delta, confirm>>

\* one iteration of apply_delta's loop; after the last one, the closing print
\* of replicate_registrations and the return
ApplyNext ==
    /\ pc = "apply"
    /\ LET namespace == delta[apply_index][1]
           value == delta[apply_index][2]
           last == apply_index = Len(delta)
       IN \E ok \in BOOLEAN :
            /\ calls' = Append(calls,
                            set_subscription_registration(destination_subscription,
                                                          namespace, value, ok))
            /\ IF ~ok
               THEN Raise(HttpResponseError) /\ UNCHANGED <<output, apply_index, exit_code>>
               ELSE /\ output' = Append(output, Registered(namespace, value))
                                 \o (IF last THEN <<Line("complete", "", 0, "")>> ELSE <<>>)
                    /\ IF last
                       THEN pc' = "exit" /\ exit_code' = EXIT_SUCCESS /\ UNCHANGED apply_index
                       ELSE apply_index' = apply_index + 1 /\ UNCHANGED <<pc, exit_code>>
                    /\ UNCHANGED error
    /\ UNCHANGED <<args, strategy, source_subscription, destination_subscription,
                   all_providers, source_registrations, destination_registrations,
                   delta, confirm>>

\* except Exception as e: print(f"Failure: {e}"); exit(-2)
TopLevelExcept ==
    /\ pc = "raised"
    /\ output' = Append(output, Line("failure", "", 0, error.msg))
    /\ exit_code' = EXIT_FAILURE
    /\ pc' = "exit"
    /\ UNCHANGED <<args, strategy, source_subscription, destination_subscription,
                   all_providers, source_registrations, destination_registrations,
                   delta, apply_index, confirm, calls, error>>

Next ==
    \/ Main
    \/ GetSourceSubscription
    \/ GetDestinationSubscription
    \/ FetchSource
    \/ FetchDestination
    \/ Evaluate
    \/ Confirm
    \/ ApplyNext
    \/ TopLevelExcept

Spec == Init /\ [][Next]_vars

\* ------------------------------------------------------------------------
\* Vocabulary of the properties
\* ------------------------------------------------------------------------

Kinds(lines) == {lines[i].kind : i \in DOMAIN lines}

RegistrationCalls ==
    {i \in DOMAIN calls : calls[i].api \in {"providers.register", "providers.unregister"}}

\* both snapshots were retrieved and generate_registration_delta has run
Evaluated ==
    /\ pc \in {"confirm", "apply", "raised", "exit"}
    /\ Cardinality({i \in DOMAIN calls : calls[i].api = "providers.list" /\ calls[i].ok}) = 2

Done == pc = "exit" /\ "complete" \in Kinds(output)

SharedNamespaces == Keys(source_registrations) \cap Keys(destination_registrations)

NoDuplicateKeys(d) == Cardinality(Keys(d)) = Len(d)

\* the destination snapshot once every entry of d has taken effect
Applied(destination_registrations_, d) ==
    [i \in DOMAIN destination_registrations_ |->
        IF Has(d, destination_registrations_[i][1])
        THEN <<destination_registrations_[i][1], Get(d, destination_registrations_[i][1])>>
        ELSE destination_registrations_[i]]

\* line is the token yes in any letter case between runs of whitespace
IsYes(line) ==
    \E i \in DOMAIN line :
        /\ i + 2 \in DOMAIN line
        /\ line[i] \in {"y", "Y"}
        /\ line[i + 1] \in {"e", "E"}
        /\ line[i + 2] \in {"s", "S"}
        /\ \A j \in DOMAIN line : (j < i \/ j > i + 2) => line[j] \in Whitespace

ValidDistinctIds ==
    /\ source_subscription_id # destination_subscription_id
    /\ source_subscription_id.hexlen = 32 /\ source_subscription_id.hexdigits
    /\ destination_subscription_id.hexlen = 32 /\ destination_subscription_id.hexdigits

UnknownStrategyName == strategy_name \notin {None, "echo", "sync"}

\* the registration a provider had before the transition it is in began
InitialValue(registration_state) ==
    registration_state \in {"Registered", "Unregistering"}

\* ------------------------------------------------------------------------
\* Properties
\* ------------------------------------------------------------------------

\* C1: under ECHO the delta's namespaces are exactly those present in both
\* snapshots that are registered in the source and not in the destination,
\* and every entry of the delta is True.
EchoDeltaExact ==
    (Evaluated /\ strategy = ECHO) =>
        /\ Keys(delta) = {ns \in SharedNamespaces :
                            Get(source_registrations, ns)
                            /\ ~Get(destination_registrations, ns)}
        /\ \A i \in DOMAIN delta : delta[i][2] = TRUE
        /\ NoDuplicateKeys(delta)

\* an ECHO delta with an entry, from a source that also lists a namespace
\* the delta leaves out
EchoDeltaWitness ==
    /\ Evaluated /\ strategy = ECHO
    /\ delta # <<>>
    /\ Keys(source_registrations) \ Keys(delta) # {}

\* C2: under SYNC the delta's namespaces are exactly those present in both
\* snapshots whose values differ, each with the source's value.
SyncDeltaExact ==
    (Evaluated /\ strategy = SYNC) =>
        /\ Keys(delta) = {ns \in SharedNamespaces :
                            Get(source_registrations, ns)
                            # Get(destination_registrations, ns)}
        /\ \A ns \in Keys(delta) : Get(delta, ns) = Get(source_registrations, ns)
        /\ NoDuplicateKeys(delta)

\* a SYNC delta that registers one namespace and unregisters another
SyncDeltaWitness ==
    /\ Evaluated /\ strategy = SYNC
    /\ \E i, j \in DOMAIN delta : delta[i][2] /\ ~delta[j][2]

\* C3: evaluating the same strategy against the destination snapshot updated
\* with the delta yields the empty delta.
DeltaIdempotent ==
    Evaluated =>
        LET again == generate_registration_delta(
                        source_registrations,
                        Applied(destination_registrations, delta), strategy)
        IN again.raised = NoError /\ again.value = <<>>

\* a run that applied a delta of two entries to the end
DeltaIdempotentWitness ==
    /\ Done
    /\ Len(delta) = 2
    /\ Applied(destination_registrations, delta) # destination_registrations

\* C4: a run whose delta is empty ends successfully at the evaluation, with
\* no report, no prompt, no line read and no register or unregister call.
EmptyDeltaEndsRun ==
    (Evaluated /\ delta = <<>>) =>
        /\ pc = "exit"
        /\ exit_code = EXIT_SUCCESS
        /\ error = NoError
        /\ confirm = NoInput
        /\ Kinds(output) = {"no_delta"}
        /\ RegistrationCalls = {}

\* a run that found nothing to change between two non-empty snapshots
EmptyDeltaWitness ==
    /\ Evaluated /\ delta = <<>>
    /\ pc = "exit"
    /\ SharedNamespaces # {}

\* C5: the report precedes the prompt, the loop of apply_delta is entered
\* only on a line that is yes once lower-cased and stripped, and any other
\* line ends the run successfully with no register or unregister call.
ConfirmGate ==
    /\ \A i \in DOMAIN output :
            output[i].kind = "prompt" =>
                /\ delta # <<>>
                /\ \A k \in DOMAIN delta :
                        \E j \in 1..(i - 1) :
                            /\ output[j].kind = "report"
                            /\ output[j].namespace = delta[k][1]
                            /\ output[j].text = (IF delta[k][2] THEN "Register"
                                                              ELSE "Unregister")
    /\ (pc = "apply" \/ RegistrationCalls # {}) => IsYes(confirm)
    /\ confirm # NoInput =>
            IF IsYes(confirm)
            THEN "aborting" \notin Kinds(output) /\ (pc = "apply" \/ RegistrationCalls # {})
            ELSE /\ pc = "exit"
                 /\ exit_code = EXIT_SUCCESS
                 /\ error = NoError
                 /\ RegistrationCalls = {}
                 /\ output[Len(output)].kind = "aborting"

\* the loop entered on a padded, mixed-case yes
ConfirmGateWitness ==
    /\ pc = "apply"
    /\ confirm = <<"\t", " ", "Y", "e", "S", "\t", " ">>

\* C6: at the end of an accepted run without a failed call, each entry of the
\* delta has had exactly one register (True) or unregister (False) call, on
\* the destination, and no other namespace and no other subscription has.
ApplyExactlyOnce ==
    (Done /\ \A i \in DOMAIN calls : calls[i].ok) =>
        /\ \A k \in DOMAIN delta :
                \E i \in RegistrationCalls :
                    /\ calls[i].namespace = delta[k][1]
                    /\ calls[i].api = (IF delta[k][2] THEN "providers.register"
                                                      ELSE "providers.unregister")
                    /\ \A j \in RegistrationCalls :
                            calls[j].namespace = delta[k][1] => j = i
        /\ \A i \in RegistrationCalls :
                /\ calls[i].namespace \in Keys(delta)
                /\ calls[i].subscription_id = destination_subscription_id.text
                /\ calls[i].subscription_id # source_subscription_id.text

\* a finished run that registered one namespace and unregistered another
ApplyExactlyOnceWitness ==
    /\ Done
    /\ \E i, j \in DOMAIN delta : delta[i][2] /\ ~delta[j][2]
    /\ Cardinality(RegistrationCalls) = 2

\* C7: a failed register or unregister call is the last client call of the
\* run: the loop stops, the calls made before it stand, and the exception
\* reaches the handler, which exits with a non-zero status.
ApplyFailureFatal ==
    \A i \in RegistrationCalls :
        ~calls[i].ok =>
            /\ i = Len(calls)
            /\ pc \in {"raised", "exit"}
            /\ error = HttpResponseError
            /\ "complete" \notin Kinds(output)
            /\ pc = "exit" => (exit_code = EXIT_FAILURE /\ exit_code # 0)
            /\ \A j \in RegistrationCalls :
                    j < i => /\ calls[j].ok
                             /\ calls[j].namespace # calls[i].namespace
                             /\ calls[j].namespace \in Keys(delta)

\* the second of two entries failed after the first was applied
ApplyFailureWitness ==
    /\ pc = "exit"
    /\ Len(delta) = 2
    /\ Cardinality(RegistrationCalls) = 2
    /\ ~calls[Len(calls)].ok
    /\ calls[Len(calls)].namespace = delta[2][1]

\* C8: main reports the first failing check in the order identical ids,
\* source format, destination format, and resolves the strategy only after
\* all three pass (no name: ECHO); a run failing a check calls no client.
ValidationOrder ==
    pc # "main" =>
        IF source_subscription_id = destination_subscription_id
        THEN error = IDENTICAL /\ calls = <<>> /\ strategy = ""
        ELSE IF ~(source_subscription_id.hexlen = 32 /\ source_subscription_id.hexdigits)
        THEN error = INVALID_SOURCE /\ calls = <<>> /\ strategy = ""
        ELSE IF ~(destination_subscription_id.hexlen = 32
                  /\ destination_subscription_id.hexdigits)
        THEN error = INVALID_DESTINATION /\ calls = <<>> /\ strategy = ""
        ELSE /\ error \notin {IDENTICAL, INVALID_SOURCE, INVALID_DESTINATION}
             /\ strategy_name = None => strategy = ECHO
             /\ strategy_name \in {"echo", "sync"} => strategy = strategy_name

\* a run given the same malformed id twice, after the handler
ValidationOrderWitness ==
    /\ pc = "exit"
    /\ source_subscription_id = destination_subscription_id
    /\ ~source_subscription_id.hexdigits

\* C9 (as stated): with valid distinct ids and a strategy name of no variant,
\* main fails with the error generate_registration_delta raises for an
\* unrecognized strategy.
UnknownStrategySameError ==
    (pc # "main" /\ ValidDistinctIds /\ UnknownStrategyName) =>
        /\ error # NoError
        /\ error = generate_registration_delta(source_registrations,
                                               destination_registrations,
                                               strategy_name).raised

\* C9 (amended): with valid distinct ids and a strategy name of no variant,
\* main fails before any client call with the ValueError of the enum lookup,
\* not the NotImplementedError generate_registration_delta raises for that
\* value, and the run exits with a non-zero status.
UnknownStrategyValueError ==
    (pc # "main" /\ ValidDistinctIds /\ UnknownStrategyName) =>
        /\ error.type = "ValueError"
        /\ generate_registration_delta(source_registrations, destination_registrations,
                                       strategy_name).raised.type = "NotImplementedError"
        /\ calls = <<>>
        /\ strategy = ""
        /\ pc \in {"raised", "exit"}
        /\ pc = "exit" => (exit_code = EXIT_FAILURE /\ exit_code # 0)

\* a run given the name bogus, after the handler
UnknownStrategyWitness ==
    /\ pc = "exit"
    /\ ValidDistinctIds
    /\ strategy_name = "bogus"

\* C10: every listed provider is recorded with the registration it had
\* before any transition began: Registered and Unregistering as True,
\* NotRegistered and Registering as False.
TransitionalKeepsInitialValue ==
    /\ pc = "fetch_destination" =>
            \A i \in DOMAIN all_providers :
                Get(source_registrations, all_providers[i][1])
                    = InitialValue(all_providers[i][2])
    /\ pc = "evaluate" =>
            \A i \in DOMAIN all_providers :
                Get(destination_registrations, all_providers[i][1])
                    = InitialValue(all_providers[i][2])

====
